---- MODULE Spec2Model ----
(***************************************************************************)
(* ScholarFlow: the turn orchestration of the App component (App.tsx, the  *)
(* variant with pre-processed file summaries), the mock Session Store      *)
(* (services/mockFirebase.ts) and the outcomes of the Inference Provider   *)
(* (services/geminiService.ts).  SpecV2 is the second App variant, which   *)
(* passes raw files to the Teacher and awaits its background requests;     *)
(* SpecStore and SpecAuth are the store and auth functions of the service  *)
(* called on their own; SpecBlob is the store functions called             *)
(* concurrently, each suspended at its delay; SpecNav is the App with      *)
(* accounts logging in and out and sessions created and selected while an  *)
(* operation runs.                                                         *)
(*                                                                         *)
(* One action is one JavaScript task: the code between two suspension      *)
(* points (an await, a timer, a promise callback).  Texts are sequences of *)
(* tokens; Date.now() is the variable now.                                 *)
(***************************************************************************)
EXTENDS Integers, Sequences, FiniteSets, TLC

\* ------------------------------------------------------------------ bounds
MaxTurns == 2
MaxUploads == 2
MaxClock == 1
MaxFaults == 1
MaxToggles == 1
MaxOps == 2
MaxSeqOps == 3

MaxIgnored == 1
MaxAuthCalls == 2
MaxSessions == 3
MaxStoreClock == 2
MaxCallbacks == 2
MaxCalls == 3
MaxClicks == 4
MaxNavOps == 1

Turns == 1..MaxTurns
Uploads == 1..MaxUploads

\* ------------------------------------------------------------- vocabulary
\* types.ts: AgentType
AgentType == {"Historian", "Teacher", "Architect", "Illustrator"}

\* types.ts: MessageRole
MessageRole == [USER |-> "user", MODEL |-> "model"]

\* The separator of the context notes, "\n\n".
SEP == "\n\n"

\* The texts the user can have typed into the input box.
Inputs == {<<"q">>, <<" ">>}

\* geminiService.ts: the fixed texts of generateTeacherResponse.
TeacherFallback == <<"The Teacher is having trouble reading the materials. Please try again.">>
TeacherPondering == <<"I'm pondering that thought...">>

\* The account the sessions are created for.
Uid == <<"user_", 1>>

\* What the auth form can hold, and the callbacks that can subscribe.
Emails == {"ann@x.org", "bob@x.org"}
Passwords == {"pw1", "pw2"}
Callbacks == 1..MaxCallbacks

\* useState<StudySession | null>(null)
Null == [null |-> TRUE]

\* ---------------------------------------------------------------- helpers
\* The object spread { ...base, ...upd }.
Spread(base, upd) ==
    [k \in (DOMAIN base) \cup (DOMAIN upd) |->
        IF k \in DOMAIN upd THEN upd[k] ELSE base[k]]

RECURSIVE TrimStart(_)
TrimStart(s) ==
    IF s # <<>> /\ Head(s) = " " THEN TrimStart(Tail(s)) ELSE s

RECURSIVE TrimEnd(_)
TrimEnd(s) ==
    IF s # <<>> /\ s[Len(s)] = " " THEN TrimEnd(SubSeq(s, 1, Len(s) - 1)) ELSE s

\* String.prototype.trim
Trim(s) == TrimEnd(TrimStart(s))

\* f.processedText || ""
ProcessedTextOrEmpty(f) ==
    IF "processedText" \in DOMAIN f THEN f.processedText ELSE <<>>

RECURSIVE JoinTerminated(_, _)
\* A join that ends every part with the separator.
JoinTerminated(parts, sep) ==
    IF parts = <<>> THEN <<>>
    ELSE parts[1] \o <<sep>> \o JoinTerminated(Tail(parts), sep)

RECURSIVE Join(_, _)
\* Array.prototype.join
Join(parts, sep) ==
    IF parts = <<>> THEN <<>>
    ELSE IF Len(parts) = 1 THEN parts[1]
    ELSE parts[1] \o <<sep>> \o Join(Tail(parts), sep)

\* files.map(f => f.processedText || "").join("\n\n")
ContextNotes(files) ==
    Join([i \in 1..Len(files) |-> ProcessedTextOrEmpty(files[i])], SEP)

\* allSessions.findIndex(s => s.id === sessionId); 0 stands for -1
FindIndex(all, sessionId) ==
    IF \E i \in 1..Len(all) : all[i].id = sessionId
    THEN CHOOSE i \in 1..Len(all) :
            /\ all[i].id = sessionId
            /\ \A j \in 1..(i - 1) : all[j].id # sessionId
    ELSE 0

\* A write that replaces the stored messages by the new one.
SaveMessageAlone(all, sessionId, message) ==
    LET index == FindIndex(all, sessionId) IN
    IF index # 0
    THEN [all EXCEPT ![index] = Spread(@, [messages |-> <<message>>])]
    ELSE all

\* The blob of saveMessageToSession after its read-modify-write.
SaveMessage(all, sessionId, message) ==
    LET index == FindIndex(all, sessionId) IN
    IF index # 0
    THEN [all EXCEPT ![index] =
            Spread(@, [messages |->
                Append(IF "messages" \in DOMAIN @ THEN @.messages ELSE <<>>, message)])]
    ELSE all

\* The blob of saveFileToSession after its read-modify-write.
SaveFile(all, sessionId, fileData) ==
    LET index == FindIndex(all, sessionId) IN
    IF index # 0
    THEN [all EXCEPT ![index] =
            Spread(@, [files |->
                Append(IF "files" \in DOMAIN @ THEN @.files ELSE <<>>, fileData)])]
    ELSE all

RECURSIVE Base36(_)
\* Number.prototype.toString(36): the digits, each by its value (0-9, a-z as 10-35).
Base36(n) == IF n < 36 THEN <<n>> ELSE Base36(n \div 36) \o <<n % 36>>

RECURSIVE LocaleCompare(_, _)
\* String.prototype.localeCompare on two ids: -1, 0 or 1.
LocaleCompare(a, b) ==
    IF a = <<>> THEN (IF b = <<>> THEN 0 ELSE -1)
    ELSE IF b = <<>> THEN 1
    ELSE IF Head(a) = Head(b) THEN LocaleCompare(Tail(a), Tail(b))
    ELSE IF Head(a) < Head(b) THEN -1 ELSE 1

\* A comparator that looks at the ids alone.
CompareIds(a, b) == LocaleCompare(b.id, a.id)

\* The comparator of getSessions.
Compare(a, b) ==
    IF a.isPinned /\ ~b.isPinned THEN -1
    ELSE IF ~a.isPinned /\ b.isPinned THEN 1
    ELSE LocaleCompare(b.id, a.id)

RECURSIVE Insert(_, _)
Insert(x, sorted) ==
    IF sorted = <<>> THEN <<x>>
    ELSE IF Compare(x, Head(sorted)) < 0 THEN <<x>> \o sorted
    ELSE <<Head(sorted)>> \o Insert(x, Tail(sorted))

RECURSIVE Sort(_)
\* Array.prototype.sort with the comparator of getSessions (a stable sort).
Sort(list) ==
    IF list = <<>> THEN <<>>
    ELSE Insert(list[Len(list)], Sort(SubSeq(list, 1, Len(list) - 1)))

\* What getSessions returns for the blob all.
GetSessions(all, userId) ==
    Sort(SelectSeq(all, LAMBDA stored : stored.userId = userId))

\* { ...allSessions[index], ...updates } of updateSessionMeta
UpdateSessionMeta(all, sessionId, updates) ==
    LET index == FindIndex(all, sessionId) IN
    IF index # 0 THEN [all EXCEPT ![index] = Spread(@, updates)] ELSE all

\* The session object createSession builds.
NewSession(userId, topic, t) ==
    [id |-> <<"sess_">> \o Base36(t),
     topic |-> topic,
     messages |-> <<>>,
     mermaidCode |-> <<"graph TB", topic, "Waiting for Context...">>,
     files |-> <<>>,
     isPinned |-> FALSE,
     userId |-> userId,
     createdAt |-> t]

\* prev.map(a => a.type === type ? { ...a, isActive, activityDescription } : a)
UpdateAgent(ag, type, isActive, desc) ==
    [ag EXCEPT ![type] = [isActive |-> isActive, activityDescription |-> desc]]

\* ------------------------------------------------------------------ state
VARIABLES
    session,        \* the live session (React state), or Null
    store,          \* localStorage[SESSIONS]: the sequence of stored sessions
    agents,         \* AgentType -> [isActive, activityDescription]
    isAudioLoading, \* the narration loading indicator
    isNarrationOn,  \* the narration toggle
    apiKey,         \* whether process.env.API_KEY is set
    now,            \* Date.now()
    pc,             \* turn -> position of its handleSendMessage/processAgentResponse
    cur,            \* turn -> currentSession, the snapshot the turn closed over
    narr,           \* turn -> isNarrationOn as the turn's closure captured it
    ctx,            \* turn -> contextNotes
    reply,          \* turn -> teacherMsg, or Null
    saveFailed,     \* turn -> whether the store write of its user message failed
    teacherOutcome, \* turn -> how its generateTeacherResponse call ended, or "none"
    pending,        \* turn -> the detached requests still outstanding
    ev,             \* turn -> the appends and calls of the turn, in program order
    diagramLog,     \* the diagram requests that resolved, in that order
    upc,            \* upload -> position of its handleFileUpload
    usnap,          \* upload -> the session the handler closed over
    ufile,          \* upload -> newFile
    umsg,           \* upload -> sysMsg
    faults,         \* the calls that failed so far
    toggles,        \* the clicks on the narration toggle so far
    launchLog,      \* the turns that launched their detached requests, in that order
    ignored,        \* the submissions that returned at the guard of handleSendMessage
    reloaded,       \* the live session the last page reload discarded, or Null
    users,          \* localStorage[USERS]: the registered accounts
    currentUser,    \* localStorage[CURRENT_USER], or Null
    observers,      \* authObservers: the subscribed callbacks
    inbox,          \* callback -> the values it was called with, in order
    passwords,      \* email -> the password given at signup ("" before), which the code drops
    authLog,        \* the last login/signup/logout call and how it ended
    listed,         \* the last getSessions call: its account, the blob read, its result
    prompt,         \* turn -> userPrompt, the text handed to processAgentResponse
    sessions,       \* the session list (React state)
    user,           \* the logged-in account (React state), or Null
    refreshing,     \* the accounts whose refreshSessions awaits getSessions, in order
    clicks,         \* the session and account changes the user has made so far
    calls,          \* the store calls made so far, in the order they were made
    doneCalls       \* the numbers of the store calls that completed, in that order

appVars == <<session, agents, isAudioLoading, isNarrationOn>>
authVars == <<users, currentUser, observers, inbox, passwords, authLog>>
navVars == <<sessions, user, refreshing, clicks>>
blobVars == <<calls, doneCalls>>
restVars == <<ignored, reloaded, authVars, listed, navVars, blobVars>>
envVars == <<store, apiKey, now, faults, toggles, restVars>>
turnVars == <<pc, cur, prompt, narr, ctx, reply, saveFailed, teacherOutcome, pending, ev,
              diagramLog, launchLog>>
uploadVars == <<upc, usnap, ufile, umsg>>
vars == <<appVars, envVars, turnVars, uploadVars>>

\* The agents as useState creates them.
InitialAgents ==
    [a \in AgentType |->
        [isActive |-> FALSE,
         activityDescription |-> IF a = "Teacher" THEN "Waiting" ELSE "Idle"]]

Init ==
    /\ session = Null
    /\ store = <<>>
    /\ agents = InitialAgents
    /\ isAudioLoading = FALSE
    /\ isNarrationOn = TRUE
    /\ apiKey \in BOOLEAN
    /\ now = 0
    /\ pc = [t \in Turns |-> "idle"]
    /\ cur = [t \in Turns |-> Null]
    /\ narr = [t \in Turns |-> FALSE]
    /\ ctx = [t \in Turns |-> <<>>]
    /\ reply = [t \in Turns |-> Null]
    /\ saveFailed = [t \in Turns |-> FALSE]
    /\ teacherOutcome = [t \in Turns |-> "none"]
    /\ pending = [t \in Turns |-> {}]
    /\ ev = [t \in Turns |-> <<>>]
    /\ diagramLog = <<>>
    /\ upc = [u \in Uploads |-> "idle"]
    /\ usnap = [u \in Uploads |-> Null]
    /\ ufile = [u \in Uploads |-> Null]
    /\ umsg = [u \in Uploads |-> Null]
    /\ faults = 0
    /\ toggles = 0
    /\ launchLog = <<>>
    /\ ignored = 0
    /\ reloaded = Null
    /\ users = <<>>
    /\ currentUser = Null
    /\ observers = {}
    /\ inbox = [o \in Callbacks |-> <<>>]
    /\ passwords = [e \in Emails |-> ""]
    /\ authLog = [n |-> 0, op |-> "none", email |-> "", pass |-> "", result |-> "none"]
    /\ listed = Null
    /\ prompt = [t \in Turns |-> <<>>]
    /\ sessions = <<>>
    /\ user = Null
    /\ refreshing = <<>>
    /\ clicks = 0
    /\ calls = <<>>
    /\ doneCalls = <<>>

\* ---------------------------------------------------------------- actions
\* The handler reads Date.now(): the clock has advanced by dt since it was last read.
Clock(dt) ==
    /\ now + dt <= MaxClock
    /\ now' = now + dt

Advance == {0, 1}

\* The auth callback at mount, with the refreshSessions it starts: the saved
\* account becomes the user, the stored sessions become the list and the first
\* of them is made live; an account with no stored session gets the welcome
\* session.
refreshSessions(dt) ==
    /\ session = Null
    /\ user' = [uid |-> Uid]
    /\ LET fetched == GetSessions(store, Uid) IN
        IF Len(fetched) > 0
        THEN /\ dt = 0
             /\ sessions' = fetched
             /\ session' = fetched[1]
             /\ UNCHANGED <<store, now>>
        ELSE /\ Clock(dt)
             /\ LET newSess == NewSession(Uid, "Welcome to ScholarFlow", now') IN
                    /\ store' = Append(store, newSess)
                    /\ sessions' = <<newSess>>
                    /\ session' = newSess
    /\ UNCHANGED <<agents, isAudioLoading, isNarrationOn, apiKey, faults, toggles,
                   ignored, reloaded, authVars, listed, refreshing, clicks, blobVars,
                   turnVars, uploadVars>>

\* setIsNarrationOn(!isNarrationOn)
toggleNarration ==
    /\ toggles < MaxToggles
    /\ toggles' = toggles + 1
    /\ isNarrationOn' = ~isNarrationOn
    /\ UNCHANGED <<session, agents, isAudioLoading, store, apiKey, restVars, now, faults,
                   turnVars, uploadVars>>

\* The turns and uploads started so far.
Started ==
    Cardinality({t \in Turns : pc[t] # "idle"})
        + Cardinality({u \in Uploads : upc[u] # "idle"})

\* The turn has nothing left to do: it was rejected, or all its requests resolved.
TurnSettled(t) ==
    \/ pc[t] \in {"rejectedAtSave", "rejectedAtTeacher", "rejectedAtAnswerSave"}
    \/ pc[t] = "detached" /\ pending[t] = {}

UploadSettled(u) == upc[u] \in {"done", "rejectedAtSave"}

\* The turns and uploads in flight.
InFlight ==
    Cardinality({t \in Turns : pc[t] # "idle" /\ ~TurnSettled(t)})
        + Cardinality({u \in Uploads : upc[u] # "idle" /\ ~UploadSettled(u)})

\* The page is reloaded while nothing is in flight: the React state is discarded
\* and the component mounts again with its initial values.
reload ==
    /\ reloaded = Null
    /\ session # Null
    /\ InFlight = 0
    /\ reloaded' = session
    /\ session' = Null
    /\ agents' = InitialAgents
    /\ isAudioLoading' = FALSE
    /\ isNarrationOn' = TRUE
    /\ sessions' = <<>>
    /\ user' = Null
    /\ UNCHANGED <<store, apiKey, now, faults, toggles, ignored, authVars, listed,
                   refreshing, clicks, blobVars, turnVars, uploadVars>>

\* The user starts another operation, whatever is in flight.
CanStart == Started < MaxOps

\* The user starts another operation once the previous ones have settled.
CanStartSeq == Started < MaxSeqOps /\ InFlight = 0

\* A call may fail while fewer than MaxFaults calls have failed.
Fault(failed) ==
    /\ failed => faults < MaxFaults
    /\ faults' = IF failed THEN faults + 1 ELSE faults

\* ------------------------------------------------------------ submitTurn
\* const userMsg = { id: Date.now().toString(), role: USER, content: input, ... }
UserMsg(input, t) ==
    [id |-> t, role |-> MessageRole.USER, content |-> input, timestamp |-> t]

\* The messages replaced by the new message alone.
OnlyMessage(s, msg) == Spread(s, [messages |-> <<msg>>])

\* { ...session, messages: [...session.messages, msg] }
WithMessage(s, msg) == Spread(s, [messages |-> Append(s.messages, msg)])

\* The store write placed before the optimistic update.
PersistFirstEvents == <<"storeUser", "appendUser">>

\* handleSendMessage up to its await: the optimistic update, then the store write.
OptimisticUpdateEvents == <<"appendUser", "storeUser">>

\* processAgentResponse: the context is gathered before the Teacher is called.
GatherContextEvents == <<"context">>

\* The detached requests launched as soon as the Teacher is called.
EagerTeacherCallEvents == <<"callTeacher", "callDiagram", "callImage">>

\* The call of generateTeacherResponse.
TeacherCallEvents == <<"callTeacher">>

\* setSession(newSessionState), then saveMessageToSession(teacherMsg).
AnswerEvents == <<"appendAnswer", "storeAnswer">>

\* The detached requests a turn launches once its answer is stored.
Detached(narrationOn) ==
    (IF narrationOn THEN {"speech"} ELSE {}) \cup {"diagram", "image"}

\* The calls of generateSpeech, generateArchitectFlowchart, generateIllustration.
DetachedEvents(narrationOn) ==
    (IF narrationOn THEN <<"callSpeech">> ELSE <<>>) \o <<"callDiagram", "callImage">>

\* currentSession.messages.map(m => ({ role: m.role, content: m.content }))
History(currentSession) ==
    [i \in 1..Len(currentSession.messages) |->
        [role |-> currentSession.messages[i].role,
         content |-> currentSession.messages[i].content]]

\* generateTeacherResponse: the contents sent to the model are the history
\* followed by the new message as a user part.
Contents(history, newMessage) ==
    [i \in 1..Len(history) |-> [role |-> history[i].role, text |-> history[i].content]]
        \o <<[role |-> "user", text |-> newMessage]>>

\* The contents of the Teacher call of turn t: processAgentResponse passes the
\* messages of its currentSession as history and its userPrompt as new message.
TeacherContents(t) == Contents(History(cur[t]), prompt[t])

\* updateAgent(TEACHER, true, ...) and the call of generateTeacherResponse, which
\* throws before its try block when there is no API key.
CallTeacher(t, ag) ==
    /\ agents' = UpdateAgent(ag, "Teacher", TRUE, "Reasoning...")
    /\ pc' = [pc EXCEPT ![t] = IF apiKey THEN "teacher" ELSE "rejectedAtTeacher"]
    /\ teacherOutcome' = [teacherOutcome EXCEPT ![t] = IF apiKey THEN @ ELSE "threw"]

\* A guard that forgets to trim the text.
AcceptedUntrimmed(input, s) == input # <<>> /\ s # Null

\* if (!input.trim() || !session) return;
Accepted(input, s) == Trim(input) # <<>> /\ s # Null

\* handleSendMessage returns at its guard.
ignoredSubmit ==
    /\ ignored < MaxIgnored
    /\ ignored' = ignored + 1
    /\ UNCHANGED <<appVars, store, apiKey, now, faults, toggles, reloaded, navVars, blobVars, authVars,
                   listed, turnVars, uploadVars>>

\* The accepted handleSendMessage, and processAgentResponse up to its first
\* suspension.  stored: whether localStorage.setItem succeeds.
submitTurn(t, input, stored, dt) ==
    /\ pc[t] = "idle"
    /\ IF t = 1 THEN TRUE ELSE pc[t - 1] # "idle"
    /\ Fault(~stored)
    /\ Clock(dt)
    /\ LET userMsg == UserMsg(input, now')
           updatedSession == WithMessage(session, userMsg)
           contextNotes == ContextNotes(updatedSession.files)
       IN
        /\ session' = updatedSession
        /\ cur' = [cur EXCEPT ![t] = updatedSession]
        /\ prompt' = [prompt EXCEPT ![t] = input]
        /\ narr' = [narr EXCEPT ![t] = isNarrationOn]
        /\ saveFailed' = [saveFailed EXCEPT ![t] = ~stored]
        /\ IF ~stored
           THEN \* saveMessageToSession throws: the handler's promise rejects
                /\ pc' = [pc EXCEPT ![t] = "rejectedAtSave"]
                /\ ev' = [ev EXCEPT ![t] = OptimisticUpdateEvents]
                /\ UNCHANGED <<store, agents, ctx, teacherOutcome>>
           ELSE /\ store' = SaveMessage(store, session.id, userMsg)
                /\ ctx' = [ctx EXCEPT ![t] = contextNotes]
                /\ IF contextNotes # <<>>
                   THEN /\ agents' = UpdateAgent(agents, "Historian", TRUE, "Supplying Notes")
                        /\ pc' = [pc EXCEPT ![t] = "timer"]
                        /\ UNCHANGED teacherOutcome
                        /\ ev' = [ev EXCEPT ![t] =
                                    OptimisticUpdateEvents \o GatherContextEvents]
                   ELSE /\ CallTeacher(t, agents)
                        /\ ev' = [ev EXCEPT ![t] =
                                    OptimisticUpdateEvents \o GatherContextEvents
                                        \o TeacherCallEvents]
    /\ UNCHANGED <<isAudioLoading, isNarrationOn, apiKey, restVars, toggles, reply, pending,
                   diagramLog, launchLog, uploadVars>>

\* handleSendMessage
handleSendMessage(t, input, stored, dt) ==
    IF Accepted(input, session) THEN submitTurn(t, input, stored, dt) ELSE ignoredSubmit

\* The 400 ms timer of processAgentResponse fires: the Teacher is called.
historianTimer(t) ==
    /\ pc[t] = "timer"
    /\ CallTeacher(t, UpdateAgent(agents, "Historian", FALSE, "Idle"))
    /\ ev' = [ev EXCEPT ![t] = @ \o TeacherCallEvents]
    /\ UNCHANGED <<session, isAudioLoading, isNarrationOn, envVars, cur, prompt, narr, ctx,
                   reply, saveFailed, pending, diagramLog, launchLog, uploadVars>>

\* What generateTeacherResponse returns.
TeacherText(outcome) ==
    CASE outcome = "text" -> <<"answer">>
      [] outcome = "empty" -> TeacherPondering
      [] outcome = "error" -> TeacherFallback

TeacherOutcomes == {"text", "empty", "error"}

\* const teacherMsg = { id: (Date.now() + 1).toString(), role: MODEL, ... }
TeacherMsg(teacherText, t) ==
    [id |-> t + 1, role |-> MessageRole.MODEL, content |-> teacherText, timestamp |-> t]

\* generateTeacherResponse resolves; the rest of processAgentResponse runs.
teacherResolves(t, outcome, stored, dt) ==
    /\ pc[t] = "teacher"
    /\ Fault(outcome # "text" \/ ~stored)
    /\ Clock(dt)
    /\ LET teacherMsg == TeacherMsg(TeacherText(outcome), now')
           newSessionState == WithMessage(cur[t], teacherMsg)
       IN
        /\ session' = newSessionState
        /\ reply' = [reply EXCEPT ![t] = teacherMsg]
        /\ teacherOutcome' = [teacherOutcome EXCEPT ![t] = outcome]
        /\ IF ~stored
           THEN /\ pc' = [pc EXCEPT ![t] = "rejectedAtAnswerSave"]
                /\ ev' = [ev EXCEPT ![t] = @ \o AnswerEvents]
                /\ UNCHANGED <<store, agents, isAudioLoading, pending, launchLog>>
           ELSE /\ store' = SaveMessage(store, cur[t].id, teacherMsg)
                /\ pc' = [pc EXCEPT ![t] = "detached"]
                /\ isAudioLoading' = (IF narr[t] THEN TRUE ELSE isAudioLoading)
                /\ agents' = UpdateAgent(
                                UpdateAgent(
                                    UpdateAgent(agents, "Teacher", FALSE, "Waiting"),
                                    "Architect", TRUE, "Mapping"),
                                "Illustrator", TRUE, "Visualizing")
                /\ pending' = [pending EXCEPT ![t] = Detached(narr[t])]
                /\ launchLog' = Append(launchLog, t)
                /\ ev' = [ev EXCEPT ![t] = @ \o AnswerEvents \o DetachedEvents(narr[t])]
    /\ UNCHANGED <<isNarrationOn, apiKey, restVars, toggles, cur, prompt, narr, ctx, saveFailed,
                   diagramLog, uploadVars>>

\* generateSpeech(teacherText).then(() => setIsAudioLoading(false))
speechResolves(t) ==
    /\ "speech" \in pending[t]
    /\ pending' = [pending EXCEPT ![t] = @ \ {"speech"}]
    /\ isAudioLoading' = FALSE
    /\ UNCHANGED <<session, agents, isNarrationOn, envVars, pc, cur, prompt, narr, ctx, reply,
                   saveFailed, teacherOutcome, ev, diagramLog, launchLog, uploadVars>>

\* What generateArchitectFlowchart returns for the answer of turn t.
Flowchart(topic, t, outcome) ==
    IF outcome = "ok"
    THEN <<"graph TB", topic, "answer " \o ToString(t)>>
    ELSE <<"graph TB", topic, "Data Unavailable">>

FlowchartOutcomes == {"ok", "error"}

\* The diagram kept once an answer has produced one.
SetMermaidOnce(prev, newMermaid) ==
    IF prev = Null THEN Null
    ELSE IF prev.mermaidCode[Len(prev.mermaidCode)] = "Waiting for Context..."
         THEN Spread(prev, [mermaidCode |-> newMermaid])
         ELSE prev

\* The diagram applied only to a session of the topic it was drawn for.
SetMermaidOfTopic(prev, newMermaid) ==
    IF prev = Null THEN Null
    ELSE IF prev.topic = newMermaid[2]
         THEN Spread(prev, [mermaidCode |-> newMermaid])
         ELSE prev

\* prev => prev ? { ...prev, mermaidCode: newMermaid } : null
SetMermaid(prev, newMermaid) ==
    IF prev # Null THEN Spread(prev, [mermaidCode |-> newMermaid]) ELSE Null

\* generateArchitectFlowchart(...).then(newMermaid => ...)
diagramResolves(t, outcome) ==
    /\ "diagram" \in pending[t]
    /\ Fault(outcome # "ok")
    /\ LET newMermaid == Flowchart(cur[t].topic, t, outcome) IN
        /\ session' = SetMermaid(session, newMermaid)
        /\ diagramLog' = Append(diagramLog,
                [turn |-> t,
                 value |-> newMermaid,
                 outstanding |-> {o \in Turns \ {t} : "diagram" \in pending[o]}])
    /\ pending' = [pending EXCEPT ![t] = @ \ {"diagram"}]
    /\ agents' = UpdateAgent(agents, "Architect", FALSE, "Idle")
    /\ UNCHANGED <<isAudioLoading, isNarrationOn, store, apiKey, restVars, now, toggles, pc, cur, prompt,
                   narr, ctx, reply, saveFailed, teacherOutcome, ev, launchLog, uploadVars>>

\* What generateIllustration returns for the answer of turn t.
Illustration(topic, t, outcome) ==
    CASE outcome = "inline" -> <<"data:image/png;base64", "answer " \o ToString(t)>>
      [] outcome = "none" -> <<"https://picsum.photos/seed", topic, "500/300">>
      [] outcome = "error" -> <<"https://picsum.photos/400/300">>

IllustrationOutcomes == {"inline", "none", "error"}

\* prev => prev ? { ...prev, currentImageUrl: newImage } : null
SetImage(prev, newImage) ==
    IF prev # Null THEN Spread(prev, [currentImageUrl |-> newImage]) ELSE Null

\* generateIllustration(...).then(newImage => ...)
imageResolves(t, outcome) ==
    /\ "image" \in pending[t]
    /\ Fault(outcome # "inline")
    /\ session' = SetImage(session, Illustration(cur[t].topic, t, outcome))
    /\ pending' = [pending EXCEPT ![t] = @ \ {"image"}]
    /\ agents' = UpdateAgent(agents, "Illustrator", FALSE, "Idle")
    /\ UNCHANGED <<isAudioLoading, isNarrationOn, store, apiKey, restVars, now, toggles, pc, cur, prompt,
                   narr, ctx, reply, saveFailed, teacherOutcome, ev, diagramLog, launchLog,
                   uploadVars>>

\* ------------------------------------------------------------ ingestFile
\* The file the user picks for upload u.
FileName(u) == "notes" \o ToString(u) \o ".pdf"

\* saveFileToSession strips data longer than this from the stored copy.
MaxStoredData == 200000

\* const newFile = { id: Date.now().toString(), name: file.name, ... }
NewFile(u, t) ==
    [id |-> t,
     name |-> FileName(u),
     size |-> "1.0 KB",
     type |-> "application/pdf",
     uploadedAt |-> t,
     data |-> <<"data:application/pdf;base64", FileName(u)>>]

\* The text processDocumentWithHistorian extracts from the file of upload u.
ExtractedText(u) == <<"summary of " \o FileName(u)>>

HistorianOutcomes == {"ok", "failed"}

\* newFile.processedText = extractedText: the summary is set on success and
\* left absent on failure.
WithProcessedText(newFile, u, outcome) ==
    IF outcome = "ok"
    THEN Spread(newFile, [processedText |-> ExtractedText(u)])
    ELSE newFile

\* const sysMsg = { id: Date.now().toString(), role: MODEL, content: ..., ... }
SysMsg(u, t) ==
    [id |-> t,
     role |-> MessageRole.MODEL,
     content |-> <<"[System] The Historian has read", FileName(u),
                   "Summary added to context memory.">>,
     timestamp |-> t]

\* { ...session, files: [...(session.files || []), newFile],
\*   messages: [...session.messages, sysMsg] }
WithFile(s, newFile, sysMsg) ==
    Spread(s, [files |-> Append(s.files, newFile),
               messages |-> Append(s.messages, sysMsg)])

\* const fileToStore = { ...fileData }, its data stripped when too large
FileToStore(fileData) ==
    IF "data" \in DOMAIN fileData /\ Len(fileData.data) > MaxStoredData
    THEN [k \in (DOMAIN fileData) \ {"data"} |-> fileData[k]]
    ELSE fileData

\* handleFileUpload up to reader.readAsDataURL(file)
handleFileUpload(u) ==
    /\ upc[u] = "idle"
    /\ IF u = 1 THEN TRUE ELSE upc[u - 1] # "idle"
    /\ session # Null
    /\ agents' = UpdateAgent(agents, "Historian", TRUE, "Reading " \o FileName(u) \o "...")
    /\ usnap' = [usnap EXCEPT ![u] = session]
    /\ upc' = [upc EXCEPT ![u] = "reading"]
    /\ UNCHANGED <<session, isAudioLoading, isNarrationOn, envVars, turnVars, ufile, umsg>>

\* reader.onload up to the await of processDocumentWithHistorian
readerLoaded(u, dt) ==
    /\ upc[u] = "reading"
    /\ Clock(dt)
    /\ ufile' = [ufile EXCEPT ![u] = NewFile(u, now')]
    /\ upc' = [upc EXCEPT ![u] = "summarizing"]
    /\ UNCHANGED <<appVars, store, apiKey, restVars, faults, toggles, turnVars, usnap, umsg>>

\* processDocumentWithHistorian resolves: the file and the notice are attached.
historianResolves(u, outcome, dt) ==
    /\ upc[u] = "summarizing"
    /\ Fault(outcome # "ok")
    /\ Clock(dt)
    /\ LET newFile == WithProcessedText(ufile[u], u, outcome)
           sysMsg == SysMsg(u, now')
           updatedSession == WithFile(usnap[u], newFile, sysMsg)
       IN
        /\ ufile' = [ufile EXCEPT ![u] = newFile]
        /\ umsg' = [umsg EXCEPT ![u] = sysMsg]
        /\ session' = updatedSession
    /\ upc' = [upc EXCEPT ![u] = "saving"]
    /\ UNCHANGED <<agents, isAudioLoading, isNarrationOn, store, apiKey, restVars, toggles,
                   turnVars, usnap>>

\* The delay of saveFileToSession ends: the file is stored (a failing setItem is
\* caught), then the notice (a failing setItem is not), and the Historian rests.
SaveUpload(u, fileStored, stored, desc) ==
    /\ upc[u] = "saving"
    /\ Fault(~fileStored \/ ~stored)
    /\ LET withFile == IF fileStored
                       THEN SaveFile(store, usnap[u].id, FileToStore(ufile[u]))
                       ELSE store
       IN
        IF stored
        THEN /\ store' = SaveMessage(withFile, usnap[u].id, umsg[u])
             /\ agents' = UpdateAgent(agents, "Historian", FALSE, desc)
             /\ upc' = [upc EXCEPT ![u] = "done"]
        ELSE /\ store' = withFile
             /\ upc' = [upc EXCEPT ![u] = "rejectedAtSave"]
             /\ UNCHANGED agents
    /\ UNCHANGED <<session, isAudioLoading, isNarrationOn, apiKey, restVars, now, toggles,
                   turnVars, usnap, ufile, umsg>>

\* The rest of reader.onload, from saveFileToSession on.
fileSaved(u, fileStored, stored) == SaveUpload(u, fileStored, stored, "Knowledge Indexed")

\* The steps that follow the start of an operation.
Progress ==
    \/ \E t \in Turns : historianTimer(t)
    \/ \E t \in Turns, outcome \in TeacherOutcomes, stored \in BOOLEAN, dt \in Advance :
            teacherResolves(t, outcome, stored, dt)
    \/ \E t \in Turns : speechResolves(t)
    \/ \E t \in Turns, outcome \in FlowchartOutcomes : diagramResolves(t, outcome)
    \/ \E t \in Turns, outcome \in IllustrationOutcomes : imageResolves(t, outcome)
    \/ \E u \in Uploads, dt \in Advance : readerLoaded(u, dt)
    \/ \E u \in Uploads, outcome \in HistorianOutcomes, dt \in Advance :
            historianResolves(u, outcome, dt)
    \/ \E u \in Uploads, fileStored \in BOOLEAN, stored \in BOOLEAN :
            fileSaved(u, fileStored, stored)

\* The user sends a message.
Send ==
    \E t \in Turns, input \in Inputs, stored \in BOOLEAN, dt \in Advance :
        handleSendMessage(t, input, stored, dt)

\* The user picks a file.
Upload == \E u \in Uploads : handleFileUpload(u)

\* Up to MaxOps operations, started at any time.
Next ==
    \/ \E dt \in Advance : refreshSessions(dt)
    \/ toggleNarration
    \/ reload
    \/ CanStart /\ Send
    \/ CanStart /\ Upload
    \/ Progress

Spec == Init /\ [][Next]_vars

\* Up to MaxSeqOps operations, each started when the previous ones have settled.
\* Every launched call resolves or fails, every timer fires: a continuation
\* that can run eventually runs.
SpecLive == Spec /\ WF_vars(Progress)

NextSeq ==
    \/ \E dt \in Advance : refreshSessions(dt)
    \/ toggleNarration
    \/ reload
    \/ CanStartSeq /\ Send
    \/ CanStartSeq /\ Upload
    \/ Progress

SpecSeq == Init /\ [][NextSeq]_vars

\* ------------------------------------------- the App variant without summaries
\* The second App component passes the raw files to the Teacher and awaits the
\* narration, the diagram and the illustration one after the other.

\* The accepted handleSendMessage, and processAgentResponse up to its first
\* suspension.
submitTurnV2(t, input, stored, dt) ==
    /\ pc[t] = "idle"
    /\ IF t = 1 THEN TRUE ELSE pc[t - 1] # "idle"
    /\ Fault(~stored)
    /\ Clock(dt)
    /\ LET userMsg == UserMsg(input, now')
           updatedSession == WithMessage(session, userMsg)
       IN
        /\ session' = updatedSession
        /\ cur' = [cur EXCEPT ![t] = updatedSession]
        /\ prompt' = [prompt EXCEPT ![t] = input]
        /\ narr' = [narr EXCEPT ![t] = isNarrationOn]
        /\ saveFailed' = [saveFailed EXCEPT ![t] = ~stored]
        /\ IF ~stored
           THEN /\ pc' = [pc EXCEPT ![t] = "rejectedAtSave"]
                /\ ev' = [ev EXCEPT ![t] = OptimisticUpdateEvents]
                /\ UNCHANGED <<store, agents, teacherOutcome>>
           ELSE /\ store' = SaveMessage(store, session.id, userMsg)
                /\ IF Len(updatedSession.files) > 0
                   THEN /\ agents' = UpdateAgent(agents, "Historian", TRUE, "Retrieving Vault")
                        /\ pc' = [pc EXCEPT ![t] = "timer"]
                        /\ ev' = [ev EXCEPT ![t] = OptimisticUpdateEvents]
                        /\ UNCHANGED teacherOutcome
                   ELSE /\ CallTeacher(t, agents)
                        /\ ev' = [ev EXCEPT ![t] =
                                    OptimisticUpdateEvents \o TeacherCallEvents]
    /\ UNCHANGED <<isAudioLoading, isNarrationOn, apiKey, restVars, toggles, ctx, reply, pending,
                   diagramLog, launchLog, uploadVars>>

\* handleSendMessage
handleSendMessageV2(t, input, stored, dt) ==
    IF Accepted(input, session) THEN submitTurnV2(t, input, stored, dt) ELSE ignoredSubmit

\* The 600 ms timer of processAgentResponse fires: the Teacher is called.
historianTimerV2(t) ==
    /\ pc[t] = "timer"
    /\ CallTeacher(t, UpdateAgent(agents, "Historian", FALSE, "Context Supplied"))
    /\ ev' = [ev EXCEPT ![t] = @ \o TeacherCallEvents]
    /\ UNCHANGED <<session, isAudioLoading, isNarrationOn, envVars, cur, prompt, narr, ctx,
                   reply, saveFailed, pending, diagramLog, launchLog, uploadVars>>

\* generateTeacherResponse resolves: the answer is appended and stored, and the
\* narration (or, with narration off, the diagram) is requested and awaited.
teacherResolvesV2(t, outcome, stored, dt) ==
    /\ pc[t] = "teacher"
    /\ Fault(outcome # "text" \/ ~stored)
    /\ Clock(dt)
    /\ LET teacherMsg == TeacherMsg(TeacherText(outcome), now')
           newSessionState == WithMessage(cur[t], teacherMsg)
           resting == UpdateAgent(agents, "Teacher", FALSE, "Waiting")
       IN
        /\ session' = newSessionState
        /\ reply' = [reply EXCEPT ![t] = teacherMsg]
        /\ teacherOutcome' = [teacherOutcome EXCEPT ![t] = outcome]
        /\ IF ~stored
           THEN /\ pc' = [pc EXCEPT ![t] = "rejectedAtAnswerSave"]
                /\ ev' = [ev EXCEPT ![t] = @ \o AnswerEvents]
                /\ UNCHANGED <<store, agents, isAudioLoading, pending, launchLog>>
           ELSE /\ store' = SaveMessage(store, cur[t].id, teacherMsg)
                /\ launchLog' = Append(launchLog, t)
                /\ IF narr[t]
                   THEN /\ isAudioLoading' = TRUE
                        /\ agents' = resting
                        /\ pending' = [pending EXCEPT ![t] = {"speech"}]
                        /\ pc' = [pc EXCEPT ![t] = "narrating"]
                        /\ ev' = [ev EXCEPT ![t] = @ \o AnswerEvents \o <<"callSpeech">>]
                   ELSE /\ agents' = UpdateAgent(resting, "Architect", TRUE, "Mapping Concepts")
                        /\ pending' = [pending EXCEPT ![t] = {"diagram"}]
                        /\ pc' = [pc EXCEPT ![t] = "mapping"]
                        /\ ev' = [ev EXCEPT ![t] = @ \o AnswerEvents \o <<"callDiagram">>]
                        /\ UNCHANGED isAudioLoading
    /\ UNCHANGED <<isNarrationOn, apiKey, restVars, toggles, cur, prompt, narr, ctx, saveFailed,
                   diagramLog, uploadVars>>

\* await generateSpeech(teacherText) resumes (the playback of the audio included):
\* only now is the diagram requested.
speechResolvesV2(t) ==
    /\ pc[t] = "narrating"
    /\ isAudioLoading' = FALSE
    /\ agents' = UpdateAgent(agents, "Architect", TRUE, "Mapping Concepts")
    /\ pending' = [pending EXCEPT ![t] = {"diagram"}]
    /\ pc' = [pc EXCEPT ![t] = "mapping"]
    /\ ev' = [ev EXCEPT ![t] = @ \o <<"callDiagram">>]
    /\ UNCHANGED <<session, isNarrationOn, envVars, cur, prompt, narr, ctx, reply, saveFailed,
                   teacherOutcome, diagramLog, launchLog, uploadVars>>

\* await generateArchitectFlowchart(...) resumes: only now is the image requested.
diagramResolvesV2(t, outcome) ==
    /\ pc[t] = "mapping"
    /\ Fault(outcome # "ok")
    /\ LET newMermaid == Flowchart(cur[t].topic, t, outcome) IN
        /\ session' = SetMermaid(session, newMermaid)
        /\ diagramLog' = Append(diagramLog,
                [turn |-> t,
                 value |-> newMermaid,
                 outstanding |-> {o \in Turns \ {t} : "diagram" \in pending[o]}])
    /\ agents' = UpdateAgent(
                    UpdateAgent(agents, "Architect", FALSE, "Map Updated"),
                    "Illustrator", TRUE, "Visualizing")
    /\ pending' = [pending EXCEPT ![t] = {"image"}]
    /\ pc' = [pc EXCEPT ![t] = "detached"]
    /\ ev' = [ev EXCEPT ![t] = @ \o <<"callImage">>]
    /\ UNCHANGED <<isAudioLoading, isNarrationOn, store, apiKey, restVars, now, toggles, cur, prompt,
                   narr, ctx, reply, saveFailed, teacherOutcome, launchLog, uploadVars>>

\* await generateIllustration(...) resumes.
imageResolvesV2(t, outcome) ==
    /\ pc[t] = "detached"
    /\ "image" \in pending[t]
    /\ Fault(outcome # "inline")
    /\ session' = SetImage(session, Illustration(cur[t].topic, t, outcome))
    /\ pending' = [pending EXCEPT ![t] = {}]
    /\ agents' = UpdateAgent(agents, "Illustrator", FALSE, "Visualized")
    /\ UNCHANGED <<isAudioLoading, isNarrationOn, store, apiKey, restVars, now, toggles, pc, cur, prompt,
                   narr, ctx, reply, saveFailed, teacherOutcome, ev, diagramLog, launchLog,
                   uploadVars>>

\* const sysMsg = { ..., content: `[System] The Historian has added "..." ...` }
SysMsgV2(u, t) ==
    [id |-> t,
     role |-> MessageRole.MODEL,
     content |-> <<"[System] The Historian has added", FileName(u),
                   "to the context window (1M Tokens). I can now analyze it deeply.">>,
     timestamp |-> t]

\* handleFileUpload up to reader.readAsDataURL(file)
handleFileUploadV2(u) ==
    /\ upc[u] = "idle"
    /\ IF u = 1 THEN TRUE ELSE upc[u - 1] # "idle"
    /\ session # Null
    /\ agents' = UpdateAgent(agents, "Historian", TRUE, "Absorbing " \o FileName(u) \o "...")
    /\ usnap' = [usnap EXCEPT ![u] = session]
    /\ upc' = [upc EXCEPT ![u] = "reading"]
    /\ UNCHANGED <<session, isAudioLoading, isNarrationOn, envVars, turnVars, ufile, umsg>>

\* reader.onload up to the await of saveFileToSession: the file is attached at once.
readerLoadedV2(u, dt) ==
    /\ upc[u] = "reading"
    /\ Clock(dt)
    /\ LET newFile == NewFile(u, now')
           sysMsg == SysMsgV2(u, now')
       IN
        /\ ufile' = [ufile EXCEPT ![u] = newFile]
        /\ umsg' = [umsg EXCEPT ![u] = sysMsg]
        /\ session' = WithFile(usnap[u], newFile, sysMsg)
    /\ upc' = [upc EXCEPT ![u] = "saving"]
    /\ UNCHANGED <<agents, isAudioLoading, isNarrationOn, store, apiKey, restVars, faults, toggles,
                   turnVars, usnap>>

\* The rest of reader.onload, from saveFileToSession on.
fileSavedV2(u, fileStored, stored) == SaveUpload(u, fileStored, stored, "Knowledge Updated")

ProgressV2 ==
    \/ \E t \in Turns : historianTimerV2(t)
    \/ \E t \in Turns, outcome \in TeacherOutcomes, stored \in BOOLEAN, dt \in Advance :
            teacherResolvesV2(t, outcome, stored, dt)
    \/ \E t \in Turns : speechResolvesV2(t)
    \/ \E t \in Turns, outcome \in FlowchartOutcomes : diagramResolvesV2(t, outcome)
    \/ \E t \in Turns, outcome \in IllustrationOutcomes : imageResolvesV2(t, outcome)
    \/ \E u \in Uploads, dt \in Advance : readerLoadedV2(u, dt)
    \/ \E u \in Uploads, fileStored \in BOOLEAN, stored \in BOOLEAN :
            fileSavedV2(u, fileStored, stored)

SendV2 ==
    \E t \in Turns, input \in Inputs, stored \in BOOLEAN, dt \in Advance :
        handleSendMessageV2(t, input, stored, dt)

UploadV2 == \E u \in Uploads : handleFileUploadV2(u)

\* The second App variant: up to MaxOps operations, started at any time.
NextV2 ==
    \/ \E dt \in Advance : refreshSessions(dt)
    \/ toggleNarration
    \/ reload
    \/ CanStart /\ SendV2
    \/ CanStart /\ UploadV2
    \/ ProgressV2

SpecV2 == Init /\ [][NextV2]_vars

\* ------------------------------------------- the Session Store service alone
\* mockFirebase.ts: each function is one task, the code after its delay.

\* The service reads Date.now().
StoreClock(dt) ==
    /\ now + dt <= MaxStoreClock
    /\ now' = now + dt

\* A lookup that never finds the account.
FindNoUser(registered, email) == 0

\* users.find(u => u.email === email): its index, 0 when there is none
FindUser(registered, email) ==
    IF \E i \in 1..Len(registered) : registered[i].email = email
    THEN CHOOSE i \in 1..Len(registered) :
            /\ registered[i].email = email
            /\ \A j \in 1..(i - 1) : registered[j].email # email
    ELSE 0

\* notifyAuthListeners(user): authObservers.forEach(cb => cb(user))
Notify(u) ==
    [o \in Callbacks |-> IF o \in observers THEN Append(inbox[o], u) ELSE inbox[o]]

AuthCall(op, email, pass, result) ==
    [n |-> authLog.n + 1, op |-> op, email |-> email, pass |-> pass, result |-> result]

\* signup(email, pass, name)
signup(email, pass, name, dt) ==
    /\ authLog.n < MaxAuthCalls
    /\ IF FindUser(users, email) # 0
       THEN /\ dt = 0
            /\ authLog' = AuthCall("signup", email, pass, "Email already in use.")
            /\ UNCHANGED <<users, currentUser, inbox, passwords, now>>
       ELSE /\ StoreClock(dt)
            /\ LET newUser == [uid |-> <<"user_">> \o Base36(now'),
                               displayName |-> name,
                               email |-> email]
               IN /\ users' = Append(users, newUser)
                  /\ currentUser' = newUser
                  /\ inbox' = Notify(newUser)
            /\ passwords' = [passwords EXCEPT ![email] = pass]
            /\ authLog' = AuthCall("signup", email, pass, "ok")
    /\ UNCHANGED <<appVars, store, apiKey, faults, toggles, ignored, navVars, blobVars, reloaded, observers,
                   listed, turnVars, uploadVars>>

\* login(email, pass)
login(email, pass) ==
    /\ authLog.n < MaxAuthCalls
    /\ LET found == FindUser(users, email) IN
        IF found # 0
        THEN /\ currentUser' = users[found]
             /\ inbox' = Notify(users[found])
             /\ authLog' = AuthCall("login", email, pass, "ok")
        ELSE /\ authLog' = AuthCall("login", email, pass, "User not found. Please Sign Up.")
             /\ UNCHANGED <<currentUser, inbox>>
    /\ UNCHANGED <<appVars, store, apiKey, now, faults, toggles, ignored, navVars, blobVars, reloaded, users,
                   observers, passwords, listed, turnVars, uploadVars>>

\* logout()
logout ==
    /\ authLog.n < MaxAuthCalls
    /\ currentUser' = Null
    /\ inbox' = Notify(Null)
    /\ authLog' = AuthCall("logout", "", "", "ok")
    /\ UNCHANGED <<appVars, store, apiKey, now, faults, toggles, ignored, navVars, blobVars, reloaded, users,
                   observers, passwords, listed, turnVars, uploadVars>>

\* subscribeToAuthChanges(callback): the callback is called with the saved user
subscribeToAuthChanges(o) ==
    /\ o \notin observers
    /\ inbox[o] = <<>>
    /\ observers' = observers \cup {o}
    /\ inbox' = [inbox EXCEPT ![o] = Append(@, currentUser)]
    /\ UNCHANGED <<appVars, store, apiKey, now, faults, toggles, ignored, navVars, blobVars, reloaded, users,
                   currentUser, passwords, authLog, listed, turnVars, uploadVars>>

\* The function subscribeToAuthChanges returned is called.
unsubscribe(o) ==
    /\ o \in observers
    /\ observers' = observers \ {o}
    /\ UNCHANGED <<appVars, store, apiKey, now, faults, toggles, ignored, navVars, blobVars, reloaded, users,
                   currentUser, inbox, passwords, authLog, listed, turnVars, uploadVars>>

Topics == {"Algebra"}

\* createSession(userId, topic)
createSession(userId, topic, dt) ==
    /\ Len(store) < MaxSessions
    /\ StoreClock(dt)
    /\ store' = Append(store, NewSession(userId, topic, now'))
    /\ UNCHANGED <<appVars, apiKey, faults, toggles, ignored, navVars, blobVars, reloaded, authVars, listed,
                   turnVars, uploadVars>>

\* togglePin: updateSessionMeta(sessId, { isPinned: !currentPin })
togglePin(i) ==
    /\ i \in 1..Len(store)
    /\ store' = UpdateSessionMeta(store, store[i].id, [isPinned |-> ~store[i].isPinned])
    /\ UNCHANGED <<appVars, apiKey, now, faults, toggles, ignored, navVars, blobVars, reloaded, authVars,
                   listed, turnVars, uploadVars>>

\* getSessions(userId)
getSessions(userId) ==
    /\ listed' = [userId |-> userId, all |-> store, result |-> GetSessions(store, userId)]
    /\ UNCHANGED <<appVars, store, apiKey, now, faults, toggles, ignored, navVars, blobVars, reloaded,
                   authVars, turnVars, uploadVars>>

\* The accounts the sessions are created for and listed for.
UserIds == {Uid, <<"user_", 2>>}

\* The store functions of the service, called in any order for any account.
NextStore ==
    \/ \E userId \in UserIds, topic \in Topics, dt \in Advance :
            createSession(userId, topic, dt)
    \/ \E i \in 1..MaxSessions : togglePin(i)
    \/ \E userId \in UserIds : getSessions(userId)

SpecStore == Init /\ [][NextStore]_vars

\* The auth functions of the service, called in any order.
NextAuth ==
    \/ \E email \in Emails, pass \in Passwords, dt \in Advance :
            signup(email, pass, "Ann", dt)
    \/ \E email \in Emails, pass \in Passwords : login(email, pass)
    \/ logout
    \/ \E o \in Callbacks : subscribeToAuthChanges(o)
    \/ \E o \in Callbacks : unsubscribe(o)

SpecAuth == Init /\ [][NextAuth]_vars

\* ------------------------------------------- accounts and the session list
\* The callback App registers with subscribeToAuthChanges is called with the
\* account that logged in, or with null after logout: setUser(u), and for an
\* account refreshSessions(u.uid) is started. A login takes longer (delay(800)
\* after a logout of delay(400)) than the refresh of the account before it
\* (delay(600), delay(500)), which has therefore resolved.
onAuthChange(u) ==
    /\ clicks < MaxClicks
    /\ clicks' = clicks + 1
    /\ IF u = Null
       THEN /\ user # Null
            /\ user' = Null
            /\ UNCHANGED refreshing
       ELSE /\ user = Null
            /\ refreshing = <<>>
            /\ user' = u
            /\ refreshing' = Append(refreshing, u.uid)
    /\ UNCHANGED <<appVars, store, apiKey, now, faults, toggles, ignored, reloaded, authVars,
                   listed, sessions, blobVars, turnVars, uploadVars>>

\* refreshSessions after its await of getSessions, as the auth callback calls
\* it: the callback is the one of the first render, whose session is null, so a
\* non-empty list always makes its first session live. An account with no
\* session gets the welcome session, created after every session stored so far.
refreshResolves(dt) ==
    /\ refreshing # <<>>
    /\ refreshing' = Tail(refreshing)
    /\ LET uid == Head(refreshing)
           fetched == GetSessions(store, uid)
       IN
        IF Len(fetched) > 0
        THEN /\ dt = 0
             /\ sessions' = fetched
             /\ session' = fetched[1]
             /\ UNCHANGED <<store, now>>
        ELSE /\ Clock(dt)
             /\ \A i \in 1..Len(store) : store[i].createdAt < now'
             /\ LET newSess == NewSession(uid, "Welcome to ScholarFlow", now') IN
                    /\ store' = Append(store, newSess)
                    /\ sessions' = <<newSess>>
                    /\ session' = newSess
    /\ UNCHANGED <<agents, isAudioLoading, isNarrationOn, apiKey, faults, toggles, ignored,
                   reloaded, authVars, listed, user, clicks, blobVars, turnVars, uploadVars>>

\* onClick={() => setSession(s)} on an entry of the session list
selectSession(i) ==
    /\ user # Null
    /\ clicks < MaxClicks
    /\ clicks' = clicks + 1
    /\ i \in 1..Len(sessions)
    /\ session' = sessions[i]
    /\ UNCHANGED <<agents, isAudioLoading, isNarrationOn, store, apiKey, now, faults, toggles,
                   ignored, reloaded, authVars, listed, sessions, user, refreshing, blobVars,
                   turnVars, uploadVars>>

\* createNewSession: the session createSession returns, created after every
\* session stored so far, is put in front of the list and made live.
createNewSession(topic, dt) ==
    /\ user # Null
    /\ clicks < MaxClicks
    /\ clicks' = clicks + 1
    /\ Clock(dt)
    /\ \A i \in 1..Len(store) : store[i].createdAt < now'
    /\ LET newSess == NewSession(user.uid, topic, now') IN
        /\ store' = Append(store, newSess)
        /\ sessions' = <<newSess>> \o sessions
        /\ session' = newSess
    /\ UNCHANGED <<agents, isAudioLoading, isNarrationOn, apiKey, faults, toggles, ignored,
                   reloaded, authVars, listed, user, refreshing, blobVars, turnVars,
                   uploadVars>>

\* The accounts that log in.
Accounts == {[uid |-> uid] : uid \in UserIds}

\* The user starts another operation, whatever is in flight.
CanStartNav == user # Null /\ Started < MaxNavOps

\* The continuations of a single turn or file ingestion: with no second
\* operation a turn never finds a summarized file and sets no Historian timer.
ProgressNav ==
    \/ \E t \in Turns, outcome \in TeacherOutcomes, stored \in BOOLEAN, dt \in Advance :
            teacherResolves(t, outcome, stored, dt)
    \/ \E t \in Turns : speechResolves(t)
    \/ \E t \in Turns, outcome \in FlowchartOutcomes : diagramResolves(t, outcome)
    \/ \E t \in Turns, outcome \in IllustrationOutcomes : imageResolves(t, outcome)
    \/ \E u \in Uploads, dt \in Advance : readerLoaded(u, dt)
    \/ \E u \in Uploads, outcome \in HistorianOutcomes, dt \in Advance :
            historianResolves(u, outcome, dt)
    \/ \E u \in Uploads, fileStored \in BOOLEAN, stored \in BOOLEAN :
            fileSaved(u, fileStored, stored)

\* Accounts log in and out, sessions are created and selected, one turn or file
\* ingestion runs meanwhile.
NextNav ==
    \/ \E u \in Accounts \cup {Null} : onAuthChange(u)
    \/ \E dt \in Advance : refreshResolves(dt)
    \/ \E i \in 1..MaxSessions : selectSession(i)
    \/ \E topic \in Topics, dt \in Advance : createNewSession(topic, dt)
    \/ CanStartNav /\ Send
    \/ CanStartNav /\ Upload
    \/ ProgressNav

SpecNav == Init /\ [][NextNav]_vars

\* ---------------------------------------------- store calls in one process
\* Each store function is async: a call runs up to its first await when it is
\* made and the rest, its read-modify-write of the blob, in the task that resumes
\* it after the delay. saveMessageToSession has no await: it runs at once.

\* The calls made for the stored sessions and the accounts.
StoreCalls(n) ==
    [n : {n}, op : {"createSession"}, sessionId : {<<>>},
     arg : [userId : UserIds, topic : Topics]]
    \cup [n : {n}, op : {"updateSessionMeta"},
          sessionId : {store[i].id : i \in 1..Len(store)},
          arg : {[isPinned |-> TRUE], [topic |-> "Renamed"]}]
    \cup [n : {n}, op : {"saveMessageToSession"},
          sessionId : {store[i].id : i \in 1..Len(store)},
          arg : {UserMsg(<<"q">>, n)}]
    \cup [n : {n}, op : {"saveFileToSession"},
          sessionId : {store[i].id : i \in 1..Len(store)},
          arg : {NewFile(1, n)}]

\* The blob after the read-modify-write of the call.
Written(all, call, t) ==
    CASE call.op = "createSession" ->
            Append(all, NewSession(call.arg.userId, call.arg.topic, t))
      [] call.op = "updateSessionMeta" -> UpdateSessionMeta(all, call.sessionId, call.arg)
      [] call.op = "saveMessageToSession" -> SaveMessage(all, call.sessionId, call.arg)
      [] call.op = "saveFileToSession" ->
            SaveFile(all, call.sessionId, FileToStore(call.arg))

\* A store function is called: it suspends at its delay, or, having none, does
\* its read-modify-write at once.
storeCall(call) ==
    /\ Len(calls) < MaxCalls
    /\ call.n = Len(calls) + 1
    /\ calls' = Append(calls, call)
    /\ IF call.op = "saveMessageToSession"
       THEN /\ store' = Written(store, call, now)
            /\ doneCalls' = Append(doneCalls, call.n)
       ELSE UNCHANGED <<store, doneCalls>>
    /\ UNCHANGED <<appVars, apiKey, now, faults, toggles, ignored, reloaded, authVars, listed,
                   navVars, turnVars, uploadVars>>

\* The delay of a call is over: the call reads the blob, changes it and writes
\* it back in one task.
storeCallResumes(n, dt) ==
    /\ n \in 1..Len(calls)
    /\ \A i \in 1..Len(doneCalls) : doneCalls[i] # n
    /\ IF calls[n].op = "createSession" THEN StoreClock(dt) ELSE dt = 0 /\ UNCHANGED now
    /\ store' = Written(store, calls[n], now')
    /\ doneCalls' = Append(doneCalls, n)
    /\ UNCHANGED <<appVars, apiKey, faults, toggles, ignored, reloaded, authVars, listed,
                   navVars, calls, turnVars, uploadVars>>

\* The store functions called in any order, their delays ending in any order.
NextBlob ==
    \/ \E call \in StoreCalls(Len(calls) + 1) : storeCall(call)
    \/ \E n \in 1..MaxCalls, dt \in Advance : storeCallResumes(n, dt)

SpecBlob == Init /\ [][NextBlob]_vars

\* ------------------------------------------------------------- properties
Range(f) == {f[i] : i \in DOMAIN f}

Count(e, x) == Cardinality({i \in DOMAIN e : e[i] = x})

IsPrefix(a, b) == Len(a) <= Len(b) /\ SubSeq(b, 1, Len(a)) = a

Min(a, b) == IF a <= b THEN a ELSE b

\* The Session Store and Inference Provider calls of a turn.
CallEvents ==
    {"storeUser", "callTeacher", "storeAnswer", "callSpeech", "callDiagram", "callImage"}

\* The messages stored for the session with this id.
StoredMessages(sessionId) ==
    IF FindIndex(store, sessionId) = 0 THEN {}
    ELSE Range(store[FindIndex(store, sessionId)].messages)

\* The file of upload u is in the live session's file set.
Attached(u) ==
    /\ session # Null
    /\ \E i \in DOMAIN session.files : session.files[i].name = FileName(u)

\* C1: an accepted submitTurn appends exactly one user message to the live
\* session, and does so before any Session Store or Inference Provider call
\* of that turn is started.
C1_UserAppendedOnceBeforeCalls ==
    /\ [](\A t \in Turns :
            /\ Count(ev[t], "appendUser") = (IF pc[t] = "idle" THEN 0 ELSE 1)
            /\ \A i \in DOMAIN ev[t] :
                    ev[t][i] \in CallEvents => \E j \in 1..(i - 1) : ev[t][j] = "appendUser")
    /\ [][\A t \in Turns :
            (pc[t] = "idle" /\ pc'[t] # "idle") =>
                /\ Len(session'.messages) = Len(session.messages) + 1
                /\ IsPrefix(session.messages, session'.messages)
                /\ session'.messages[Len(session'.messages)].role = MessageRole.USER
                /\ Len(ev'[t]) >= 2
                /\ ev'[t][1] = "appendUser"]_vars

\* C1 witness: a turn waits for the Teacher with its user message in the live session.
C1_Witness ==
    \E t \in Turns :
        /\ pc[t] = "teacher"
        /\ session = cur[t]
        /\ ev[t] = <<"appendUser", "storeUser", "context", "callTeacher">>
        /\ session.messages[Len(session.messages)].role = MessageRole.USER

\* C2: in the live session the message sequence of a session only grows by
\* appending: every new value has the previous value as a prefix.
C2_LiveMessagesAppendOnly ==
    [][(session # Null /\ session' # Null /\ session'.id = session.id)
            => IsPrefix(session.messages, session'.messages)]_vars

\* C3: when the completeText call of a turn fails, the turn still appends exactly
\* one assistant message holding the fallback text and completes; the failure
\* does not escape the turn.
C3_TeacherFailureDegrades ==
    \A t \in Turns :
        teacherOutcome[t] \in {"error", "threw"} =>
            /\ pc[t] = "detached"
            /\ reply[t] # Null
            /\ reply[t].content = TeacherFallback
            /\ Count(ev[t], "appendAnswer") = 1

\* C4: writers to different fields of the live session do not disturb one
\* another: a step that changes the messages or the files leaves the diagram and
\* the image as they were, and a step that changes the diagram or the image
\* leaves the messages and the files as they were.
C4_DisjointFieldsUndisturbed ==
    [][(session # Null /\ session' # Null /\ session'.id = session.id) =>
            /\ (session'.messages # session.messages \/ session'.files # session.files)
                    => /\ session'.mermaidCode = session.mermaidCode
                       /\ ("currentImageUrl" \in DOMAIN session =>
                            /\ "currentImageUrl" \in DOMAIN session'
                            /\ session'.currentImageUrl = session.currentImageUrl)
            /\ (session'.mermaidCode # session.mermaidCode
                    \/ ("currentImageUrl" \in DOMAIN session') # ("currentImageUrl" \in DOMAIN session))
                    => /\ session'.messages = session.messages
                       /\ session'.files = session.files]_vars

\* C5: whenever a diagram request resolves, the diagram of the live session is
\* the value of that request, whichever turn launched its request first: of two
\* requests outstanding together the one that resolves last leaves its value.
C5_LastResolvedDiagramWins ==
    [][diagramLog' # diagramLog =>
            /\ session' # Null
            /\ session'.mermaidCode = diagramLog'[Len(diagramLog')].value]_vars

\* C5 witness: two diagram requests were outstanding together, the one launched
\* second resolved first, and the diagram is the value of the one launched first.
C5_Witness ==
    /\ Len(launchLog) = 2
    /\ Len(diagramLog) = 2
    /\ diagramLog[1].turn = launchLog[2]
    /\ diagramLog[1].outstanding = {launchLog[1]}
    /\ diagramLog[2].turn = launchLog[1]
    /\ diagramLog[1].value # diagramLog[2].value
    /\ session.mermaidCode = diagramLog[2].value

\* C6: when the store write of the user message fails, the turn still goes on
\* to request an answer; the failure does not escape submitTurn.
C6_UserSaveFailureDegrades ==
    \A t \in Turns :
        saveFailed[t] =>
            /\ pc[t] # "rejectedAtSave"
            /\ "callTeacher" \in Range(ev[t]) \/ pc[t] = "timer"

RECURSIVE Summaries(_)
\* The summaries of the files that have one, in attachment order.
Summaries(files) ==
    IF files = <<>> THEN <<>>
    ELSE IF "processedText" \in DOMAIN Head(files)
         THEN <<Head(files).processedText>> \o Summaries(Tail(files))
         ELSE Summaries(Tail(files))

\* C7: the context a turn assembles is the summaries of the summarized files, in
\* attachment order, joined by the separator; a file with no summary adds nothing.
C7_ContextOnlySummarizedFiles ==
    \A t \in Turns :
        (pc[t] # "idle" /\ ~saveFailed[t]) =>
            ctx[t] = Join(Summaries(cur[t].files), SEP)

\* The five core steps of a turn, in order.
CoreOrder ==
    <<"appendUser", "storeUser", "context", "callTeacher", "appendAnswer", "storeAnswer">>

\* C8: the core steps of a turn happen in order, each after the previous one has
\* resolved, and no narration, diagram or image request of the turn is launched
\* before its assistant message has been appended and stored.
C8_CoreStepsInOrder ==
    \A t \in Turns :
        LET e == ev[t]
            n == Min(Len(e), Len(CoreOrder))
        IN
        /\ SubSeq(e, 1, n) = SubSeq(CoreOrder, 1, n)
        /\ \A i \in (Len(CoreOrder) + 1)..Len(e) :
                e[i] \in {"callSpeech", "callDiagram", "callImage"}
        /\ Len(e) >= 3 => cur[t].messages[Len(cur[t].messages)] \in StoredMessages(cur[t].id)
        /\ Len(e) >= 5 => reply[t] # Null
        /\ Len(e) >= 7 => reply[t] \in StoredMessages(cur[t].id)
        /\ pending[t] # {} => Len(e) > Len(CoreOrder)

\* C8 witness: a turn has gone through every step and launched its three requests.
C8_Witness ==
    \E t \in Turns :
        /\ ev[t] = CoreOrder \o <<"callSpeech", "callDiagram", "callImage">>
        /\ pending[t] = {"speech", "diagram", "image"}

\* The requests of a turn that have been launched.
Launched(t) == Range(ev[t]) \cap {"callSpeech", "callDiagram", "callImage"}

\* C9: the narration, diagram and image requests of a turn are launched without
\* awaiting one another: once one of them is launched, all that apply are.
C9_DetachedLaunchedTogether ==
    \A t \in Turns :
        Launched(t) # {} =>
            Launched(t) = (IF narr[t] THEN {"callSpeech"} ELSE {}) \cup {"callDiagram", "callImage"}

\* C10: ingestFile attaches the file to the live session's file set before the
\* summarization call resolves: when the call of an upload resolves, its file is
\* already in the live file set.
C10_VisibleBeforeSummary ==
    [][\A u \in Uploads :
            (upc[u] = "summarizing" /\ upc'[u] # "summarizing") => Attached(u)]_vars

\* C12: when the diagram-description call fails, the diagram of the live session
\* keeps the value it had before the call.
C12_FailedDiagramKeepsValue ==
    [][(/\ Len(diagramLog') = Len(diagramLog) + 1
        /\ diagramLog'[Len(diagramLog')].value[3] = "Data Unavailable")
            => (session # Null /\ session' # Null
                    /\ session'.mermaidCode = session.mermaidCode)]_vars

NonDecreasing(messages) ==
    \A i, j \in 1..Len(messages) :
        i < j => messages[i].timestamp <= messages[j].timestamp

\* C14: the timestamps of the messages are non-decreasing along the message
\* sequence, in the live session and in every stored session.
C14_TimestampsNonDecreasing ==
    /\ session # Null => NonDecreasing(session.messages)
    /\ \A i \in 1..Len(store) : NonDecreasing(store[i].messages)

\* The turn ran to its end: answer appended and stored, every request resolved.
TurnCompleted(t) == pc[t] = "detached" /\ pending[t] = {}

\* Turn t is the only operation started so far.
OnlyOperation(t) ==
    /\ \A o \in Turns \ {t} : pc[o] = "idle"
    /\ \A u \in Uploads : upc[u] = "idle"

\* C17: a turn submitted on a session with no files and no messages calls the
\* Teacher with the empty context and, once settled, leaves exactly two messages
\* in the live session: the user message followed by the assistant message.
C17_FirstTurnOnEmptySession ==
    \A t \in Turns :
        (/\ pc[t] # "idle"
         /\ OnlyOperation(t)
         /\ cur[t].files = <<>>
         /\ Len(cur[t].messages) = 1) =>
            /\ "callTeacher" \in Range(ev[t]) =>
                    ("context" \in Range(ev[t]) /\ ctx[t] = <<>>)
            /\ (TurnCompleted(t) /\ session # Null) =>
                    /\ session.messages = <<cur[t].messages[1], reply[t]>>
                    /\ session.messages[1].role = MessageRole.USER
                    /\ session.messages[2].role = MessageRole.MODEL

\* C17 witness: the first turn of an empty session has settled.
C17_Witness ==
    \E t \in Turns :
        /\ OnlyOperation(t)
        /\ TurnCompleted(t)
        /\ cur[t].files = <<>>
        /\ Len(cur[t].messages) = 1
        /\ ctx[t] = <<>>
        /\ session # Null
        /\ Len(session.messages) = 2

\* C18: with exactly one attached file, whose summary is T, the context
\* assembled by the turn is T exactly.
C18_SingleSummaryIsContext ==
    \A t \in Turns :
        (/\ "context" \in Range(ev[t])
         /\ Len(cur[t].files) = 1
         /\ "processedText" \in DOMAIN cur[t].files[1]) =>
            ctx[t] = cur[t].files[1].processedText

\* C18 witness: a turn has assembled its context from one summarized file.
C18_Witness ==
    \E t \in Turns, u \in Uploads :
        /\ "context" \in Range(ev[t])
        /\ Len(cur[t].files) = 1
        /\ "processedText" \in DOMAIN cur[t].files[1]
        /\ ctx[t] = ExtractedText(u)
        /\ ctx[t] # <<>>

\* The user message of a started turn.
SubmittedMsg(t) == cur[t].messages[Len(cur[t].messages)]

\* C11: a submission whose text is empty after trimming, or made with no active
\* session, changes nothing: no message, no store write, no provider call, no
\* agent status change; only texts that are non-empty after trimming start a turn.
C11_RejectedSubmitIsNoOp ==
    /\ [](\A t \in Turns :
            pc[t] # "idle" =>
                /\ cur[t] # Null
                /\ SubmittedMsg(t).role = MessageRole.USER
                /\ Trim(SubmittedMsg(t).content) # <<>>)
    /\ [][ignored' # ignored =>
            /\ session' = session
            /\ store' = store
            /\ agents' = agents
            /\ isAudioLoading' = isAudioLoading
            /\ pc' = pc
            /\ ev' = ev
            /\ pending' = pending
            /\ teacherOutcome' = teacherOutcome]_vars

\* C11 witness: a blank text was submitted on an active session and ignored.
C11_Witness ==
    /\ ignored = 1
    /\ session # Null
    /\ session.messages = <<>>
    /\ \A t \in Turns : pc[t] = "idle"

\* C13: when every launched call eventually resolves or fails, every accepted
\* submitTurn eventually settles: its assistant message appended and stored,
\* and its narration, diagram and image requests resolved.
C13_AcceptedTurnSettles ==
    \A t \in Turns :
        (pc[t] # "idle") ~> (TurnCompleted(t) /\ reply[t] # Null)

\* The image of a session, Null when it has none.
ImageOf(s) == IF "currentImageUrl" \in DOMAIN s THEN s.currentImageUrl ELSE Null

\* C15: the diagram and image produced by a settled turn survive a reload: the
\* session loaded from the Session Store after the reload has the diagram and
\* the image the live session had before it.
C15_DiagramAndImageSurviveReload ==
    [][(/\ reloaded # Null
        /\ \E t \in Turns : TurnCompleted(t)
        /\ session = Null
        /\ session' # Null) =>
            /\ session'.id = reloaded.id
            /\ session'.mermaidCode = reloaded.mermaidCode
            /\ ImageOf(session') = ImageOf(reloaded)]_vars

\* C16: getSessions returns exactly the sessions of the account, every pinned
\* session before every unpinned one, and among sessions of equal pinned status
\* the more recently created first.
C16_ListedOwnedPinnedThenRecent ==
    listed # Null =>
        LET r == listed.result IN
        /\ \A x \in Range(listed.all) \cup Range(r) :
                Count(r, x) = (IF x.userId = listed.userId THEN Count(listed.all, x) ELSE 0)
        /\ \A i, j \in 1..Len(r) :
                i < j =>
                    /\ r[j].isPinned => r[i].isPinned
                    /\ (r[i].isPinned = r[j].isPinned) => r[i].createdAt >= r[j].createdAt

\* C16 witness: a listing that leaves out another account's session and puts a
\* pinned session before a more recent unpinned one.
C16_Witness ==
    /\ listed # Null
    /\ \E i \in 1..Len(listed.all) : listed.all[i].userId # listed.userId
    /\ Len(listed.result) = 2
    /\ listed.result[1].isPinned
    /\ ~listed.result[2].isPinned
    /\ listed.result[1].createdAt < listed.result[2].createdAt

\* The call that has just returned.
Returned(op) == authLog'.n = authLog.n + 1 /\ authLog'.op = op

Registered(email) == \E i \in 1..Len(users) : users[i].email = email

\* Every subscribed callback, and no other, is called with the user.
Notified(u) ==
    \A o \in Callbacks :
        inbox'[o] = IF o \in observers THEN Append(inbox[o], u) ELSE inbox[o]

\* C19: signup with a registered email raises the conflict error and changes
\* nothing; with a new email it adds exactly one account, makes it the current
\* user and notifies every observer.
C19_SignupConflictOrOneAccount ==
    [][Returned("signup") =>
        IF Registered(authLog'.email)
        THEN /\ authLog'.result = "Email already in use."
             /\ users' = users
             /\ currentUser' = currentUser
             /\ inbox' = inbox
        ELSE /\ authLog'.result = "ok"
             /\ Len(users') = Len(users) + 1
             /\ SubSeq(users', 1, Len(users)) = users
             /\ users'[Len(users')].email = authLog'.email
             /\ currentUser' = users'[Len(users')]
             /\ Notified(currentUser')]_vars

\* C19 witness: every callback subscribed, an account signed up, and a second
\* signup with its email was refused: one account, one notification each.
C19_Witness ==
    /\ authLog.n = 2
    /\ authLog.op = "signup"
    /\ authLog.result = "Email already in use."
    /\ Len(users) = 1
    /\ users[1].email = authLog.email
    /\ currentUser = users[1]
    /\ observers = Callbacks
    /\ \A o \in Callbacks : inbox[o] = <<Null, users[1]>>

\* C20: login returns an account, records it as current user and notifies the
\* observers only when email and password match a registered account; otherwise
\* it raises an error and leaves the current user and the observers alone.
C20_LoginOnlyWithMatchingCredentials ==
    [][Returned("login") =>
        IF Registered(authLog'.email) /\ passwords[authLog'.email] = authLog'.pass
        THEN /\ authLog'.result = "ok"
             /\ currentUser' # Null
             /\ currentUser'.email = authLog'.email
             /\ Notified(currentUser')
        ELSE /\ authLog'.result # "ok"
             /\ currentUser' = currentUser
             /\ inbox' = inbox]_vars

\* The turns whose narration request is outstanding.
Narrating == {t \in Turns : "speech" \in pending[t]}

\* C22: while at least one narration request is outstanding the narration
\* loading indicator is on, also when the narrations of two overlapping turns
\* resolve at different times.
C22_IndicatorOnWhileNarrating ==
    Narrating # {} => isAudioLoading

\* No two messages of the sequence carry the same identifier.
DistinctIds(messages) ==
    \A i, j \in 1..Len(messages) : messages[i].id = messages[j].id => i = j

\* C23: within one session, live or stored, no two messages (user, assistant
\* or system notice) share an identifier, whatever the timing of the operations.
C23_MessageIdsUnique ==
    /\ session # Null => DistinctIds(session.messages)
    /\ \A i \in 1..Len(store) : DistinctIds(store[i].messages)

\* Every started turn and file ingestion has run to its end without a rejection.
AllCompleted ==
    /\ \A t \in Turns : pc[t] = "idle" \/ TurnCompleted(t)
    /\ \A u \in Uploads : upc[u] \in {"idle", "done"}

\* The message sequence stored for the session with this id.
StoredSequence(sessionId) ==
    IF FindIndex(store, sessionId) = 0 THEN <<>>
    ELSE store[FindIndex(store, sessionId)].messages

\* C24: absent persistence failures, once all turns and file ingestions of
\* the live session have settled, its message sequence equals the stored one,
\* also when two operations overlapped.
C24_LiveEqualsStoredWhenSettled ==
    (/\ session # Null
     /\ Started > 0
     /\ AllCompleted
     /\ faults = 0)
        => session.messages = StoredSequence(session.id)

\* C30: whenever no call or timer of any turn or file ingestion is outstanding,
\* every agent's active flag is false and the narration loading indicator is
\* off, also after overlapping turns.
C30_QuiescentMeansIdle ==
    InFlight = 0 =>
        /\ \A a \in DOMAIN agents : ~agents[a].isActive
        /\ ~isAudioLoading

\* How many user parts of the contents carry the text.
TimesSent(contents, text) ==
    Cardinality({i \in DOMAIN contents :
                    contents[i].role = MessageRole.USER /\ contents[i].text = text})

\* The user messages of the sequence as contents parts.
AsContents(messages) ==
    [i \in 1..Len(messages) |-> [role |-> messages[i].role, text |-> messages[i].content]]

\* C28: the text of a new user message reaches the Teacher exactly once: the
\* contents of the call carry it once more than the session did before the
\* turn, the history passed not already holding the new message.
C28_PromptSentOnce ==
    [][\A t \in Turns :
        (pc[t] = "idle" /\ pc'[t] \notin {"idle", "rejectedAtSave"}) =>
            TimesSent(Contents(History(cur'[t]), prompt'[t]), prompt'[t])
                = TimesSent(AsContents(session.messages), prompt'[t]) + 1]_vars

\* The store call with this number has completed.
Completed(n) == \E i \in 1..Len(doneCalls) : doneCalls[i] = n

\* The place of a completed call in the order of completion.
CompletedAt(n) == CHOOSE i \in 1..Len(doneCalls) : doneCalls[i] = n

\* The stored session a call is made for.
StoredSession(sessionId) == store[FindIndex(store, sessionId)]

\* No later completed updateSessionMeta call sets the field on the same session.
LastUpdate(n, field) ==
    \A m \in 1..Len(calls) :
        (/\ Completed(m)
         /\ calls[m].op = "updateSessionMeta"
         /\ calls[m].sessionId = calls[n].sessionId
         /\ field \in DOMAIN calls[m].arg)
            => CompletedAt(m) <= CompletedAt(n)

C21_DetachedResultGoesToLiveSession ==
    [][\A t \in Turns :
        /\ ("diagram" \in pending[t] /\ "diagram" \notin pending'[t] /\ session # Null) =>
                /\ session'.id = session.id
                /\ \E outcome \in FlowchartOutcomes :
                        session'.mermaidCode = Flowchart(cur[t].topic, t, outcome)
        /\ ("image" \in pending[t] /\ "image" \notin pending'[t] /\ session # Null) =>
                /\ session'.id = session.id
                /\ "currentImageUrl" \in DOMAIN session'
                /\ \E outcome \in IllustrationOutcomes :
                        session'.currentImageUrl = Illustration(cur[t].topic, t, outcome)]_vars

\* C21 witness: a turn was submitted in one session, the user created another
\* one, and the live session, of another topic, shows the turn's diagram and image.
C21_Witness ==
    \E t \in Turns :
        /\ pc[t] = "detached"
        /\ pending[t] \cap {"diagram", "image"} = {}
        /\ session # Null
        /\ session.id # cur[t].id
        /\ session.topic # cur[t].topic
        /\ session.messages = <<>>
        /\ session.mermaidCode = Flowchart(cur[t].topic, t, "ok")
        /\ "currentImageUrl" \in DOMAIN session
        /\ session.currentImageUrl = Illustration(cur[t].topic, t, "inline")

\* C25: the live session changes only when the user selects or creates a
\* session, or when the sessions of an account that logged in are loaded: the
\* arrival of an answer, or the end of a file ingestion, of an operation started
\* in another session does not change which session is live.
C25_LiveSessionChangesOnlyByUser ==
    [][(session # Null /\ session' # Null /\ session'.id # session.id)
            => (clicks' # clicks \/ refreshing' # refreshing)]_vars

\* The stored sessions that are not owned by the account.
SessionsOfOthers(account) ==
    {i \in 1..Len(store) : store[i].userId # account.uid}

\* C26: whenever an account is logged in the live session is owned by it, and
\* no step taken while it is logged in appends a message to a stored session of
\* another account.
C26_LiveSessionOwnedByUser ==
    /\ [](user # Null /\ session # Null => session.userId = user.uid)
    /\ [][user # Null /\ user' = user =>
            \A i \in SessionsOfOthers(user) : store'[i].messages = store[i].messages]_vars

\* C27: selecting a session from the session list makes live a session whose
\* message sequence contains every message persisted for it in the store:
\* switching away from a session and back hides no message exchanged earlier.
C27_SelectedSessionHasStoredMessages ==
    [][(clicks' # clicks /\ session' # Null /\ sessions' = sessions /\ user' = user) =>
            \A message \in StoredMessages(session'.id) :
                \E i \in 1..Len(session'.messages) : session'.messages[i] = message]_vars
====
